---- MODULE Spec2Model ----
(***************************************************************************)
(* The event lifecycle of the two overlays of the game client:             *)
(*   EventsDisplay   (src/unnamed/part_000)                                *)
(*   AllianceDisplay (src/src/client/graphics/layers/AllianceDisplay.ts)   *)
(* Each overlay runs in the single-threaded UI loop: one action of the     *)
(* model is one turn (a tick() callback or a click handler), followed by   *)
(* the re-render the turn requested.  The two overlays share nothing but   *)
(* the game view, so each has its own specification: EventsSpec and        *)
(* AllianceSpec.  EventsUpdatesSpec and AllianceUpdatesSpec run the same   *)
(* tick() actions and record the batch of updates each tick() was handed,  *)
(* for the properties of the update handlers.                              *)
(***************************************************************************)
EXTENDS Integers, Sequences, FiniteSets, TLC

VARIABLES
    ticks,          \* game.ticks()
    clientIDSet,    \* whether the overlay's clientID is set (not null)
    localPlayer,    \* small ID of game.playerByClientID(clientID), NoPlayer if none
    last,           \* how the last turn ended: "tick", "tickThrew", or "turn" for a click (history)
    tickCalls,      \* number of tick() turns so far (bounds the run)
    clicks,         \* number of button clicks so far (bounds the run)
    toggles,        \* number of show/hide clicks so far (bounds the run)
    requested,      \* whether the last turn requested a re-render of the
                    \* overlay: requestUpdate(), or a reactive property set (history)
    overlay,        \* the overlay the run drives: "events" or "alliance"
    \* ---- EventsDisplay
    events,         \* this.events
    evHidden,       \* this._hidden
    newEvents,      \* this.newEvents
    dom,            \* the rows of the last render(), in order
    nextId,         \* identity of the next Event object (history)
    customAdds,     \* addEvent calls with optional fields so far (bounds the run)
    onDeleteLog,    \* ids whose onDelete ran, in call order (history)
    actionLog,      \* ids whose button action ran, in call order (history)
    expired,        \* [ev, at]: events the expiry filter evicted, and when (history)
    dismissed,      \* events removed by a button press (history)
    lastDropped,    \* events the cap dropped in the last tick() (history)
    incomingAttacks, \* this.incomingAttacks
    outgoingAttacks, \* this.outgoingAttacks
    outgoingBoats,  \* this.outgoingBoats
    \* ---- AllianceDisplay
    inSpawnPhase,   \* game.inSpawnPhase()
    allianceHidden, \* this._allianceDisplayHidden
    shownOnInit,    \* this._shownOnInit
    allianceEvents, \* this.allianceEvents
    allianceRequests, \* this.allianceRequests
    allies,         \* this.allies (the players of the roster)
    gameAllies,     \* myPlayer.allies() in the game view
    bus,            \* SendAllianceReplyIntentEvents emitted, in order (history)
    nextAllianceId, \* identity of the next AllianceEvent object (history)
    answered,       \* ids of requests whose onAccept or onReject ran (history)
    \* ---- the updates of the last tick()
    lastBatch,      \* updatesSinceLastTick() of the last tick(), where the
                    \* specification records it; <<>> before (history)
    handled         \* the updates the handlers of EventsDisplay were invoked
                    \* with in the last tick(), per kind and in order of
                    \* invocation, where the specification records it (history)

gameVars == <<ticks, clientIDSet, localPlayer, overlay>>
histVars == <<last, tickCalls, clicks, toggles, requested>>
projVars == <<incomingAttacks, outgoingAttacks, outgoingBoats>>
eventsVars == <<events, evHidden, newEvents, dom, nextId, customAdds, onDeleteLog,
                actionLog, expired, dismissed, lastDropped, projVars>>
allianceVars == <<inSpawnPhase, allianceHidden, shownOnInit, allianceEvents,
                  allianceRequests, allies, gameAllies, bus, nextAllianceId,
                  answered>>
obsVars == <<lastBatch, handled>>
vars == <<gameVars, histVars, eventsVars, allianceVars, obsVars>>

----------------------------------------------------------------------------
\* Program constants

DefaultDuration == 600
EventCap == 30
DefaultPriority == 100000
RequestDuration == 150
AllianceDefaultDuration == 150
AcceptedReplyDuration == 50
RejectedReplyDuration == 150
TraitorDuration == 100
BetrayedDuration == 150
TargetDuration == 300
RosterPeriod == 10
SweepPeriod == 30

\* Bounds of the model

MaxTurns == 3          \* turns of a run
MaxClicks == 1         \* button clicks of a run
MaxToggles == 2        \* show/hide clicks of a run
MaxCustomAdds == 2     \* addEvent calls with optional fields of a run
MaxTicks == MaxTurns - 1

\* Values

Undef == -1            \* an absent optional field (undefined)
NoPlayer == 0          \* playerByClientID / playerBySmallID found nothing
AllPlayers == -2       \* the broadcast recipient
Players == {1, 2, 3}   \* small IDs of the players of the game view
UpdateIDs == {1, 2, 4} \* small IDs carried by updates; 4 names no player
Bots == {3}            \* the players whose type() is PlayerType.Bot

\* Turns run so far
Turns == tickCalls + clicks + toggles + customAdds

playerBySmallID(id) == IF id \in Players THEN id ELSE NoPlayer

----------------------------------------------------------------------------
\* Sequences

Rep(n, x) == [i \in 1..n |-> x]

RECURSIVE Count(_, _)
Count(x, s) == IF s = <<>> THEN 0
               ELSE (IF Head(s) = x THEN 1 ELSE 0) + Count(x, Tail(s))

Range(s) == {s[i] : i \in 1..Len(s)}

\* The batches of at most one update out of S
UpToOne(S) == {<<>>} \cup {<<u>> : u \in S}

\* Array.prototype.slice(from) with from < 0 counted from the end
SliceLast(s, n) == IF Len(s) <= n THEN s ELSE SubSeq(s, Len(s) - n + 1, Len(s))

\* [...a.slice(0, index), ...a.slice(index + 1)] for the 1-based position i
RemoveAtMutant(s, i) == SubSeq(s, 1, i - 1)
RemoveAt(s, i) == SubSeq(s, 1, i - 1) \o SubSeq(s, i + 1, Len(s))

----------------------------------------------------------------------------
\* EventsDisplay

\* event.duration ?? 600
EffDuration(e) == IF e.duration = Undef THEN DefaultDuration ELSE e.duration

\* a.priority ?? 100000
EffPriorityMutant(e) == IF e.priority = Undef THEN 0 ELSE e.priority
EffPriority(e) == IF e.priority = Undef THEN DefaultPriority ELSE e.priority

\* The comparator of render()'s sort: negative when a goes before b
CompareMutant(a, b) ==
    IF EffPriority(a) = EffPriority(b)
    THEN b.createdAt - a.createdAt
    ELSE EffPriority(b) - EffPriority(a)
Compare(a, b) ==
    IF EffPriority(a) = EffPriority(b)
    THEN a.createdAt - b.createdAt
    ELSE EffPriority(b) - EffPriority(a)

\* Array.prototype.sort is stable: each element, in list order, goes after
\* every earlier element that does not compare greater than it
RECURSIVE InsertSorted(_, _)
InsertSorted(s, e) ==
    IF s = <<>> \/ Compare(s[Len(s)], e) <= 0 THEN Append(s, e)
    ELSE Append(InsertSorted(SubSeq(s, 1, Len(s) - 1), e), s[Len(s)])

RECURSIVE SortEvents(_)
SortEvents(s) ==
    IF Len(s) <= 1 THEN s
    ELSE InsertSorted(SortEvents(SubSeq(s, 1, Len(s) - 1)), s[Len(s)])

\* shouldKeep of tick()'s filter
ShouldKeepMutant(e, now) == now - e.createdAt <= EffDuration(e)
ShouldKeep(e, now) == now - e.createdAt < EffDuration(e)

\* this.events.filter(...): the events kept, in list order
FilterKept(s, now) == SelectSeq(s, LAMBDA e : ShouldKeep(e, now))

\* The onDelete calls of tick()'s filter, in call order
OnDeleteCallsMutant(s, now) == <<>>
OnDeleteCalls(s, now) ==
    LET called == SelectSeq(s, LAMBDA e : ~ShouldKeep(e, now) /\ e.onDelete)
    IN [i \in 1..Len(called) |-> called[i].id]

\* if (remainingEvents.length > 30) remainingEvents = remainingEvents.slice(-30)
CapEventsMutant(s) == s
CapEvents(s) == IF Len(s) > EventCap THEN SliceLast(s, EventCap) ELSE s

\* An Event object; id stands for the object's identity
NewEvent(id, now, prio, dur, del, btn, focus) ==
    [id |-> id, createdAt |-> now, priority |-> prio, duration |-> dur,
     onDelete |-> del, button |-> btn, focusID |-> focus]

\* The state a turn of EventsDisplay works on: the list, the counter, the
\* next object identity, whether a handler threw, whether requestUpdate ran
NoCalls == [display |-> <<>>, emoji |-> <<>>]
TurnState == [ev |-> events, ne |-> newEvents, nid |-> nextId,
              threw |-> FALSE, req |-> FALSE, calls |-> NoCalls]

\* addEvent(event)
addEventMutant(S, prio, dur, del, btn, focus, now) ==
    [S EXCEPT !.ev = Append(@, NewEvent(S.nid, now, prio, dur, del, btn, focus)),
              !.ne = @ + 1,
              !.nid = @ + 1,
              !.req = TRUE]
addEvent(S, prio, dur, del, btn, focus, now) ==
    [S EXCEPT !.ev = Append(@, NewEvent(S.nid, now, prio, dur, del, btn, focus)),
              !.ne = IF evHidden THEN @ + 1 ELSE @,
              !.nid = @ + 1,
              !.req = TRUE]

\* onDisplayMessageEvent(event); pid is event.playerID, Undef when null
onDisplayMessageEventMutant(S, pid, now) ==
    IF pid # Undef /\ localPlayer = NoPlayer
    THEN S
    ELSE addEvent(S, Undef, Undef, FALSE, "none", Undef, now)
onDisplayMessageEvent(S, pid, now) ==
    IF pid # Undef /\ (localPlayer = NoPlayer \/ localPlayer # pid)
    THEN S
    ELSE addEvent(S, Undef, Undef, FALSE, "none", Undef, now)

\* onEmojiMessageEvent(update); u is [senderID, recipientID]
onEmojiMessageEvent(S, u, now) ==
    IF localPlayer = NoPlayer THEN S
    ELSE LET recipient == IF u.recipientID = AllPlayers THEN AllPlayers
                          ELSE playerBySmallID(u.recipientID)
             sender == playerBySmallID(u.senderID)
         IN IF recipient = localPlayer
            THEN IF sender = NoPlayer
                 THEN [S EXCEPT !.threw = TRUE]   \* sender.displayName()
                 ELSE addEvent(S, Undef, Undef, FALSE, "none", u.senderID, now)
            ELSE IF sender = localPlayer /\ recipient # AllPlayers
            THEN IF recipient = NoPlayer
                 THEN [S EXCEPT !.threw = TRUE]   \* recipient.displayName()
                 ELSE addEvent(S, Undef, Undef, FALSE, "none", recipient, now)
            ELSE S

\* updates[ut]?.forEach((u) => fn(u)) for one update kind
RECURSIVE DispatchDisplay(_, _, _)
DispatchDisplay(S, us, now) ==
    IF us = <<>> \/ S.threw THEN S
    ELSE DispatchDisplay(
            onDisplayMessageEvent([S EXCEPT !.calls.display = Append(@, Head(us))],
                                  Head(us), now),
            Tail(us), now)

RECURSIVE DispatchEmoji(_, _, _)
DispatchEmoji(S, us, now) ==
    IF us = <<>> \/ S.threw THEN S
    ELSE DispatchEmoji(
            onEmojiMessageEvent([S EXCEPT !.calls.emoji = Append(@, Head(us))],
                                Head(us), now),
            Tail(us), now)

\* render(): the in-place sort of this.events
render(s) == SortEvents(s)

\* The list after the turn's re-render, when the turn requested one
AfterRender(S) == IF S.req THEN render(S.ev) ELSE S.ev

\* The update batches tick() can be handed: a few display messages and a few
\* emojis, or enough display messages to overfill the list
SmallDisplays == UpToOne({Undef, 1, 2})
SmallEmojis ==
    UpToOne([senderID : UpdateIDs, recipientID : UpdateIDs \cup {AllPlayers}])
\* What a tick() reads from the game view: the updates of each kind, and
\* the local player's incoming attacks, outgoing attacks and units
\* (other: the updates of a kind updateMap has no handler for)
NoEventUpdates == [display |-> <<>>, emoji |-> <<>>, other |-> <<>>,
                   incoming |-> <<>>, outgoing |-> <<>>, units |-> <<>>]
SmallBatches ==
    {[NoEventUpdates EXCEPT !.display = ds, !.emoji = es] :
        ds \in SmallDisplays, es \in SmallEmojis}
EventsBatches ==
    SmallBatches
    \cup {[NoEventUpdates EXCEPT !.display = Rep(EventCap + 1 - Len(events), Undef)]}

\* Game views with attacks and units: attackers that are a player, a bot
\* and no player; targets that are a player and 0; boats and other units
AttackViews ==
    {[NoEventUpdates EXCEPT !.incoming = <<[attackerID |-> 2]>>],
     [NoEventUpdates EXCEPT !.incoming = <<[attackerID |-> 3]>>,
                            !.outgoing = <<[targetID |-> 0]>>],
     [NoEventUpdates EXCEPT !.incoming = <<[attackerID |-> 3], [attackerID |-> 2]>>,
                            !.outgoing = <<[targetID |-> 2], [targetID |-> 0]>>,
                            !.units = <<"Warship", "TransportShip">>],
     [NoEventUpdates EXCEPT !.units = <<"TransportShip">>],
     [NoEventUpdates EXCEPT !.incoming = <<[attackerID |-> 2], [attackerID |-> 4]>>,
                            !.outgoing = <<[targetID |-> 2]>>,
                            !.units = <<"TransportShip">>]}

EventsTickSteps == {1, DefaultDuration - 1}

\* Batches with two updates of one kind, and with updates of a kind that has
\* no handler
PairBatches ==
    {[NoEventUpdates EXCEPT !.display = <<Undef, 1>>],
     [NoEventUpdates EXCEPT !.emoji = <<[senderID |-> 2, recipientID |-> 1],
                                        [senderID |-> 1, recipientID |-> 2]>>],
     [NoEventUpdates EXCEPT !.emoji = <<[senderID |-> 4, recipientID |-> 1],
                                        [senderID |-> 2, recipientID |-> 1]>>],
     [NoEventUpdates EXCEPT !.display = <<1>>, !.other = <<"unit">>],
     [NoEventUpdates EXCEPT !.other = <<"unit", "unit">>]}

\* The updates tick()'s dispatch loop invokes the handlers with
Handled(batch, now) ==
    DispatchEmoji(DispatchDisplay(TurnState, batch.display, now), batch.emoji, now).calls

\* myPlayer.incomingAttacks().filter(...): the filter calls type() on the
\* attacker of each attack, which throws when the attacker is no player
IncomingThrows(attacks) ==
    \E k \in 1..Len(attacks) : playerBySmallID(attacks[k].attackerID) = NoPlayer
IncomingKept(attacks) == SelectSeq(attacks, LAMBDA a : a.attackerID \notin Bots)

\* myPlayer.outgoingAttacks().filter((a) => a.targetID != 0)
OutgoingKept(attacks) == SelectSeq(attacks, LAMBDA a : a.targetID # 0)

\* myPlayer.units().filter((u) => u.type() === UnitType.TransportShip)
BoatsKept(units) == SelectSeq(units, LAMBDA u : u = "TransportShip")

\* The projections after tick(): left alone when there is no local player
\* or the filter of the incoming attacks throws
Projections(batch) ==
    IF localPlayer = NoPlayer \/ IncomingThrows(batch.incoming)
    THEN UNCHANGED projVars
    ELSE /\ incomingAttacks' = IncomingKept(batch.incoming)
         /\ outgoingAttacks' = OutgoingKept(batch.outgoing)
         /\ outgoingBoats' = BoatsKept(batch.units)

\* What tick() leaves behind once the handlers of the batch ran to S2
\* without throwing: the expiry filter and the cap; final tells whether
\* tick() reached its last requestUpdate()
TickTail(S2, now, final) ==
    \E kept \in {FilterKept(S2.ev, now)} :
    \E remaining \in {CapEvents(kept)} :
       /\ events' = IF Len(S2.ev) # Len(remaining) THEN render(remaining)
                    ELSE IF S2.req \/ final THEN render(S2.ev)
                    ELSE S2.ev
       /\ requested' = (S2.req \/ Len(S2.ev) # Len(remaining) \/ final)
       /\ onDeleteLog' = onDeleteLog \o OnDeleteCalls(S2.ev, now)
       /\ expired' = expired \cup
             {[ev |-> e, at |-> now] : e \in Range(S2.ev) \ Range(kept)}
       /\ lastDropped' = Range(kept) \ Range(remaining)

\* tick() of EventsDisplay, with the game view advanced by d ticks
EventsTick(d, batch) ==
    /\ tickCalls < MaxTicks
    /\ Turns < MaxTurns
    /\ ticks' = ticks + d
    /\ tickCalls' = tickCalls + 1
    /\ \E S2 \in {DispatchEmoji(DispatchDisplay(TurnState, batch.display, ticks + d),
                                batch.emoji, ticks + d)} :
          /\ newEvents' = S2.ne
          /\ nextId' = S2.nid
          /\ IF S2.threw
             THEN /\ events' = AfterRender(S2)
                  /\ requested' = S2.req
                  /\ last' = "tickThrew"
                  /\ UNCHANGED <<onDeleteLog, expired, lastDropped, projVars>>
             ELSE /\ TickTail(S2, ticks + d,
                              localPlayer # NoPlayer /\ ~IncomingThrows(batch.incoming))
                  /\ Projections(batch)
                  /\ last' = IF localPlayer # NoPlayer /\ IncomingThrows(batch.incoming)
                             THEN "tickThrew" ELSE "tick"
    /\ dom' = events'
    /\ UNCHANGED <<clientIDSet, localPlayer, overlay, clicks, toggles, evHidden, customAdds,
                   actionLog, dismissed>>
    /\ UNCHANGED allianceVars

\* addEvent(event) with an Event that carries optional fields of the
\* interface (priority, duration, onDelete, buttons), then the re-render
CustomEvents ==
    { [priority |-> 0, duration |-> Undef, onDelete |-> FALSE, button |-> "none"],
      [priority |-> Undef, duration |-> 2, onDelete |-> TRUE, button |-> "none"],
      [priority |-> 5, duration |-> 2, onDelete |-> FALSE, button |-> "close"],
      [priority |-> Undef, duration |-> 2, onDelete |-> TRUE, button |-> "close"],
      [priority |-> DefaultPriority + 1, duration |-> Undef, onDelete |-> FALSE,
       button |-> "keep"] }

AddCustomEvent(c) ==
    /\ customAdds < MaxCustomAdds
    /\ Turns < MaxTurns
    /\ \E S \in {addEvent(TurnState, c.priority, c.duration, c.onDelete, c.button,
                          Undef, ticks)} :
          /\ events' = AfterRender(S)
          /\ requested' = S.req
          /\ newEvents' = S.ne
          /\ nextId' = S.nid
    /\ dom' = events'
    /\ customAdds' = customAdds + 1
    /\ last' = "turn"
    /\ UNCHANGED <<gameVars, tickCalls, clicks, toggles, evHidden, onDeleteLog, actionLog,
                   expired, dismissed, lastDropped, projVars>>
    /\ UNCHANGED allianceVars
    /\ UNCHANGED obsVars

\* removeEvent(index)
removeEvent(s, i) == RemoveAt(s, i)

\* The click handler of the button of row i of the last render
\* (index = i - 1): btn.action(), removeEvent(index) unless preventClose,
\* requestUpdate()
ClickButton(i) ==
    /\ clicks < MaxClicks
    /\ Turns < MaxTurns
    /\ ~evHidden
    /\ i \in 1..Len(dom)
    /\ dom[i].button # "none"
    /\ actionLog' = Append(actionLog, dom[i].id)
    /\ IF dom[i].button = "close"
       THEN /\ events' = render(removeEvent(events, i))
            /\ dismissed' = dismissed \cup {dom[i]}
       ELSE /\ events' = render(events)
            /\ UNCHANGED dismissed
    /\ requested' = TRUE
    /\ dom' = events'
    /\ clicks' = clicks + 1
    /\ last' = "turn"
    /\ UNCHANGED <<gameVars, tickCalls, toggles, evHidden, newEvents, nextId, customAdds,
                   onDeleteLog, expired, lastDropped, projVars>>
    /\ UNCHANGED allianceVars
    /\ UNCHANGED obsVars

\* toggleHidden()
ToggleHidden ==
    /\ toggles < MaxToggles
    /\ Turns < MaxTurns
    /\ evHidden' = ~evHidden
    /\ newEvents' = IF evHidden' THEN 0 ELSE newEvents
    /\ events' = render(events)
    /\ requested' = TRUE
    /\ dom' = events'
    /\ toggles' = toggles + 1
    /\ last' = "turn"
    /\ UNCHANGED <<gameVars, tickCalls, clicks, nextId, customAdds, onDeleteLog, actionLog,
                   expired, dismissed, lastDropped, projVars>>
    /\ UNCHANGED allianceVars
    /\ UNCHANGED obsVars

----------------------------------------------------------------------------
\* AllianceDisplay

\* The state a turn of AllianceDisplay works on
AllianceTurn == [evs |-> allianceEvents, reqs |-> allianceRequests,
                 nid |-> nextAllianceId,
                 hidden |-> allianceHidden, shown |-> shownOnInit,
                 allies |-> allies, threw |-> FALSE, req |-> FALSE]

\* addEvent(event) of AllianceDisplay; desc names the template of the
\* event's description
addAllianceEvent(A, desc, dur, focus, now) ==
    [A EXCEPT !.evs = Append(@, [id |-> A.nid, description |-> desc,
                                 createdAt |-> now, duration |-> dur,
                                 focusID |-> focus]),
              !.nid = @ + 1,
              !.req = TRUE]

\* addAllianceRequest(request)
addAllianceRequest(A, requestor, recipient, now) ==
    [A EXCEPT !.reqs = Append(@, [id |-> A.nid, description |-> "request",
                                  createdAt |-> now,
                                  duration |-> RequestDuration, onDelete |-> TRUE,
                                  requestor |-> requestor, recipient |-> recipient,
                                  focusID |-> requestor]),
              !.nid = @ + 1,
              !.req = TRUE]

\* onAllianceRequestEvent(update); u is [requestorID, recipientID]
onAllianceRequestEvent(A, u, now) ==
    IF localPlayer = NoPlayer \/ u.recipientID # localPlayer THEN A
    ELSE IF playerBySmallID(u.requestorID) = NoPlayer
    THEN [A EXCEPT !.threw = TRUE]        \* requestor.name()
    ELSE addAllianceRequest(A, playerBySmallID(u.requestorID),
                            playerBySmallID(u.recipientID), now)

\* onAllianceRequestReplyEvent(update); u is [requestorID, recipientID, accepted]
onAllianceRequestReplyEvent(A, u, now) ==
    IF localPlayer = NoPlayer \/ u.requestorID # localPlayer THEN A
    ELSE IF playerBySmallID(u.recipientID) = NoPlayer
    THEN [A EXCEPT !.threw = TRUE]        \* recipient.name()
    ELSE addAllianceEvent(A, IF u.accepted THEN "accepted" ELSE "rejected",
                          IF u.accepted THEN AcceptedReplyDuration
                          ELSE RejectedReplyDuration,
                          u.recipientID, now)

\* onBrokeAllianceEvent(update); u is [traitorID, betrayedID], traitors the
\* players whose isTraitor() the game view reports
onBrokeAllianceEvent(A, u, traitors, now) ==
    IF localPlayer = NoPlayer THEN A
    ELSE LET betrayed == playerBySmallID(u.betrayedID)
             traitor == playerBySmallID(u.traitorID)
         IN IF betrayed = NoPlayer
            THEN [A EXCEPT !.threw = TRUE]            \* betrayed.isTraitor()
            ELSE IF betrayed \notin traitors /\ traitor = localPlayer
            THEN addAllianceEvent(A, "traitor", TraitorDuration, u.betrayedID, now)
            ELSE IF betrayed = localPlayer
            THEN IF traitor = NoPlayer
                 THEN [A EXCEPT !.threw = TRUE]       \* traitor.name()
                 ELSE addAllianceEvent(A, "betrayed", BetrayedDuration,
                                       u.traitorID, now)
            ELSE A

\* myPlayer.isAlliedWith(other), current being myPlayer.allies()
isAlliedWith(other, current) == other \in current

\* onTargetPlayerEvent(event); u is [playerID, targetID]
onTargetPlayerEvent(A, u, current, now) ==
    IF localPlayer = NoPlayer \/ ~isAlliedWith(playerBySmallID(u.playerID), current)
    THEN A
    ELSE IF playerBySmallID(u.targetID) = NoPlayer
    THEN [A EXCEPT !.threw = TRUE]                    \* target.name()
    ELSE addAllianceEvent(A, "target", TargetDuration, u.targetID, now)

\* onAllianceExpiredEvent(update); u is [player1ID, player2ID], alive the
\* players whose isAlive() the game view reports
otherIDMutant(u) == u.player2ID
otherID(u) ==
    IF u.player1ID = localPlayer THEN u.player2ID
    ELSE IF u.player2ID = localPlayer THEN u.player1ID
    ELSE Undef

onAllianceExpiredEvent(A, u, alive, now) ==
    IF localPlayer = NoPlayer THEN A
    ELSE IF otherID(u) = Undef \/ otherID(u) = 0 THEN A         \* !otherID
    ELSE IF \/ playerBySmallID(otherID(u)) = NoPlayer
            \/ localPlayer \notin alive
            \/ playerBySmallID(otherID(u)) \notin alive
    THEN A
    ELSE addAllianceEvent(A, "expired", Undef, otherID(u), now)

RECURSIVE DispatchRequests(_, _, _)
DispatchRequests(A, us, now) ==
    IF us = <<>> \/ A.threw THEN A
    ELSE DispatchRequests(onAllianceRequestEvent(A, Head(us), now), Tail(us), now)

RECURSIVE DispatchReplies(_, _, _)
DispatchReplies(A, us, now) ==
    IF us = <<>> \/ A.threw THEN A
    ELSE DispatchReplies(onAllianceRequestReplyEvent(A, Head(us), now), Tail(us), now)

RECURSIVE DispatchBroke(_, _, _, _)
DispatchBroke(A, us, traitors, now) ==
    IF us = <<>> \/ A.threw THEN A
    ELSE DispatchBroke(onBrokeAllianceEvent(A, Head(us), traitors, now), Tail(us),
                       traitors, now)

RECURSIVE DispatchTargets(_, _, _, _)
DispatchTargets(A, us, current, now) ==
    IF us = <<>> \/ A.threw THEN A
    ELSE DispatchTargets(onTargetPlayerEvent(A, Head(us), current, now), Tail(us),
                         current, now)

RECURSIVE DispatchExpired(_, _, _, _)
DispatchExpired(A, us, alive, now) ==
    IF us = <<>> \/ A.threw THEN A
    ELSE DispatchExpired(onAllianceExpiredEvent(A, Head(us), alive, now), Tail(us),
                         alive, now)

\* for (const [ut, fn] of this.updateMap) updates[ut]?.forEach((u) => fn(u)):
\* the kinds in the order of updateMap
Dispatch(A, batch, current, now) ==
    DispatchExpired(
      DispatchTargets(
        DispatchBroke(
          DispatchReplies(DispatchRequests(A, batch.request, now), batch.reply, now),
          batch.broke, batch.traitors, now),
        batch.target, current, now),
      batch.expired, batch.alive, now)

\* updateAllianceDisplay(); current is myPlayer.allies() in the game view
updateAllianceDisplayMutant(A, current) ==
    IF A.threw \/ ~clientIDSet THEN A
    ELSE IF localPlayer = NoPlayer
    THEN [A EXCEPT !.threw = TRUE]
    ELSE [A EXCEPT !.allies = current]
updateAllianceDisplay(A, current) ==
    IF A.threw \/ ~clientIDSet THEN A
    ELSE IF localPlayer = NoPlayer
    THEN [A EXCEPT !.threw = TRUE]        \* myPlayer.allies()
    ELSE [A EXCEPT !.allies = current, !.req = TRUE]

\* if (event.duration == null) event.duration = 150
Normalized(e) ==
    IF e.duration = Undef THEN [e EXCEPT !.duration = AllianceDefaultDuration] ELSE e

\* The test of clearExpiredEvents()'s filter, on the normalized event
StillCurrent(e, now) == now < e.duration + e.createdAt

\* clearExpiredEvents()
clearExpiredEvents(A, now) ==
    IF A.threw THEN A
    ELSE LET normalized == [i \in 1..Len(A.evs) |-> Normalized(A.evs[i])]
         IN [A EXCEPT !.evs = SelectSeq(normalized, LAMBDA e : StillCurrent(e, now))]

\* if (!this._shownOnInit && !this.game.inSpawnPhase())
ShouldAutoShowMutant(shown, spawn) == ~spawn
ShouldAutoShow(shown, spawn) == ~shown /\ ~spawn

\* if (this._allianceDisplayHidden) return
SkipMaintenance(hidden) == hidden

\* The first-display step of tick()
AutoShow(A, spawn, current) ==
    IF A.threw \/ ~ShouldAutoShow(A.shown, spawn) THEN A
    ELSE updateAllianceDisplay([A EXCEPT !.shown = TRUE, !.hidden = FALSE, !.req = TRUE],
                               current)

\* The periodic maintenance of tick()
Maintenance(A, now, current) ==
    IF A.threw \/ SkipMaintenance(A.hidden) THEN A
    ELSE LET A1 == IF now % RosterPeriod = 0 THEN updateAllianceDisplay(A, current)
                   ELSE A
         IN IF now % SweepPeriod = 0 THEN clearExpiredEvents(A1, now) ELSE A1

AllianceTickSteps == {1, SweepPeriod, RequestDuration}

\* Updates of each kind: to and from the local player (1), between other
\* players, and naming a player the game view does not know (4)
RequestUpdates ==
    {[requestorID |-> 2, recipientID |-> 1], [requestorID |-> 2, recipientID |-> 3],
     [requestorID |-> 4, recipientID |-> 1]}
ReplyUpdates ==
    {[requestorID |-> 1, recipientID |-> 2, accepted |-> TRUE],
     [requestorID |-> 1, recipientID |-> 2, accepted |-> FALSE],
     [requestorID |-> 2, recipientID |-> 1, accepted |-> TRUE],
     [requestorID |-> 1, recipientID |-> 4, accepted |-> FALSE]}
BrokeUpdates ==
    {[traitorID |-> 1, betrayedID |-> 2], [traitorID |-> 2, betrayedID |-> 1],
     [traitorID |-> 2, betrayedID |-> 3], [traitorID |-> 1, betrayedID |-> 4],
     [traitorID |-> 4, betrayedID |-> 1]}
TargetUpdates ==
    {[playerID |-> 2, targetID |-> 3], [playerID |-> 3, targetID |-> 2],
     [playerID |-> 2, targetID |-> 4]}
ExpiredUpdates ==
    {[player1ID |-> 1, player2ID |-> 2], [player1ID |-> 2, player2ID |-> 1],
     [player1ID |-> 3, player2ID |-> 1], [player1ID |-> 2, player2ID |-> 3],
     [player1ID |-> 1, player2ID |-> 4]}

\* What the game view can report with a batch: the players flagged as
\* traitors, and the players alive
TraitorSets == {{}, {1}, {2}}
AliveSets == {Players, Players \ {1}, Players \ {2}}

\* A tick's input: the updates of each kind, and the traitors and the alive
\* players of the game view at that tick
NoUpdates == [request |-> <<>>, reply |-> <<>>, broke |-> <<>>, target |-> <<>>,
              expired |-> <<>>, traitors |-> {}, alive |-> Players]

AllianceBatches ==
    {[NoUpdates EXCEPT !.request = rs] : rs \in UpToOne(RequestUpdates)}
    \cup {[NoUpdates EXCEPT !.reply = ps] : ps \in UpToOne(ReplyUpdates)}
    \cup {[NoUpdates EXCEPT !.request = <<[requestorID |-> 2, recipientID |-> 1]>>,
                            !.reply = <<[requestorID |-> 1, recipientID |-> 2,
                                         accepted |-> TRUE]>>]}
    \cup {[NoUpdates EXCEPT !.broke = <<[traitorID |-> 2, betrayedID |-> 1]>>],
          [NoUpdates EXCEPT !.target = <<[playerID |-> 2, targetID |-> 3]>>],
          [NoUpdates EXCEPT !.expired = <<[player1ID |-> 1, player2ID |-> 2]>>]}

\* The batches of one update, each with every report of the game view its
\* handler reads
SingleUpdateBatches ==
    {[NoUpdates EXCEPT !.request = <<u>>] : u \in RequestUpdates}
    \cup {[NoUpdates EXCEPT !.reply = <<u>>] : u \in ReplyUpdates}
    \cup {[NoUpdates EXCEPT !.broke = <<u>>, !.traitors = t] :
             u \in BrokeUpdates, t \in TraitorSets}
    \cup {[NoUpdates EXCEPT !.target = <<u>>] : u \in TargetUpdates}
    \cup {[NoUpdates EXCEPT !.expired = <<u>>, !.alive = a] :
             u \in ExpiredUpdates, a \in AliveSets}

\* The local player's allies the game view can report
AllySets == IF localPlayer = NoPlayer THEN {{}} ELSE {{}, {2}}

\* tick() of AllianceDisplay, with the game view advanced by d ticks to a
\* state with spawn phase flag spawn and the local player's allies current
AllianceTick(d, spawn, current, batch) ==
    /\ tickCalls < MaxTicks
    /\ Turns < MaxTurns
    /\ spawn => inSpawnPhase
    /\ ticks' = ticks + d
    /\ inSpawnPhase' = spawn
    /\ gameAllies' = current
    /\ tickCalls' = tickCalls + 1
    /\ \E A \in {Maintenance(
                   AutoShow(Dispatch(AllianceTurn, batch, current, ticks + d),
                            spawn, current),
                   ticks + d, current)} :
          /\ allianceEvents' = A.evs
          /\ allianceRequests' = A.reqs
          /\ nextAllianceId' = A.nid
          /\ allianceHidden' = A.hidden
          /\ shownOnInit' = A.shown
          /\ allies' = A.allies
          /\ requested' = A.req
          /\ last' = IF A.threw THEN "tickThrew" ELSE "tick"
    /\ UNCHANGED <<clientIDSet, localPlayer, overlay, clicks, toggles, bus, answered>>
    /\ UNCHANGED eventsVars

\* request.onAccept / request.onReject of row i of the pending requests:
\* eventBus.emit(new SendAllianceReplyIntentEvent(requestor, recipient, accepted))
AnswerRequest(i, accepted) ==
    /\ clicks < MaxClicks
    /\ Turns < MaxTurns
    /\ i \in 1..Len(allianceRequests)
    /\ bus' = Append(bus, [requestor |-> allianceRequests[i].requestor,
                           recipient |-> allianceRequests[i].recipient,
                           accepted |-> accepted])
    /\ answered' = answered \cup {allianceRequests[i].id}
    /\ clicks' = clicks + 1
    /\ requested' = FALSE
    /\ last' = "turn"
    /\ UNCHANGED <<gameVars, tickCalls, toggles, inSpawnPhase, allianceHidden,
                   shownOnInit, allianceEvents, allianceRequests, allies, gameAllies,
                   nextAllianceId>>
    /\ UNCHANGED eventsVars
    /\ UNCHANGED obsVars

\* toggleAllianceDisplay()
toggleAllianceDisplay ==
    /\ toggles < MaxToggles
    /\ Turns < MaxTurns
    /\ allianceHidden' = ~allianceHidden
    /\ requested' = TRUE
    /\ toggles' = toggles + 1
    /\ last' = "turn"
    /\ UNCHANGED <<gameVars, tickCalls, clicks, inSpawnPhase, shownOnInit,
                   allianceEvents, allianceRequests, allies, gameAllies, bus,
                   nextAllianceId, answered>>
    /\ UNCHANGED eventsVars
    /\ UNCHANGED obsVars

\* hideAllianceDisplay()
hideAllianceDisplay ==
    /\ toggles < MaxToggles
    /\ Turns < MaxTurns
    /\ allianceHidden' = TRUE
    /\ requested' = TRUE
    /\ toggles' = toggles + 1
    /\ last' = "turn"
    /\ UNCHANGED <<gameVars, tickCalls, clicks, inSpawnPhase, shownOnInit,
                   allianceEvents, allianceRequests, allies, gameAllies, bus,
                   nextAllianceId, answered>>
    /\ UNCHANGED eventsVars
    /\ UNCHANGED obsVars

----------------------------------------------------------------------------
\* Initial state: both overlays as constructed, the game in its spawn phase

InitBase ==
    /\ ticks = 0
    /\ last = "init"
    /\ tickCalls = 0
    /\ clicks = 0
    /\ toggles = 0
    /\ requested = FALSE
    /\ events = <<>>
    /\ evHidden = FALSE
    /\ newEvents = 0
    /\ dom = <<>>
    /\ nextId = 1
    /\ customAdds = 0
    /\ onDeleteLog = <<>>
    /\ actionLog = <<>>
    /\ expired = {}
    /\ dismissed = {}
    /\ lastDropped = {}
    /\ incomingAttacks = <<>>
    /\ outgoingAttacks = <<>>
    /\ outgoingBoats = <<>>
    /\ inSpawnPhase = TRUE
    /\ allianceHidden = TRUE
    /\ shownOnInit = FALSE
    /\ allianceEvents = <<>>
    /\ allianceRequests = <<>>
    /\ allies = {}
    /\ gameAllies = {}
    /\ bus = <<>>
    /\ nextAllianceId = 1
    /\ answered = {}
    /\ lastBatch = <<>>
    /\ handled = NoCalls

\* EventsDisplay reads clientID only through playerByClientID
EventsInit ==
    /\ InitBase
    /\ overlay = "events"
    /\ localPlayer \in {NoPlayer, 1}
    /\ clientIDSet = (localPlayer # NoPlayer)

\* AllianceDisplay: clientID unset, set with no such player, or set
AllianceInit ==
    /\ InitBase
    /\ overlay = "alliance"
    /\ localPlayer \in {NoPlayer, 1}
    /\ clientIDSet \in {clientIDSet0 \in BOOLEAN : localPlayer # NoPlayer => clientIDSet0}

EventsNext ==
    \/ \E d \in EventsTickSteps, batch \in EventsBatches :
          EventsTick(d, batch) /\ UNCHANGED obsVars
    \/ \E c \in CustomEvents : AddCustomEvent(c)
    \/ \E i \in 1..(EventCap + 2) : ClickButton(i)
    \/ ToggleHidden

EventsSpec == EventsInit /\ [][EventsNext]_vars

\* EventsDisplay observed with the batch of each tick()
EventsUpdatesNext ==
    \/ \E d \in EventsTickSteps, batch \in SmallBatches \cup AttackViews \cup PairBatches :
          /\ EventsTick(d, batch)
          /\ lastBatch' = batch
          /\ handled' = Handled(batch, ticks + d)
    \/ ToggleHidden

EventsUpdatesSpec == EventsInit /\ [][EventsUpdatesNext]_vars

AllianceNext ==
    \/ \E d \in AllianceTickSteps, spawn \in BOOLEAN, current \in AllySets,
          batch \in AllianceBatches :
             AllianceTick(d, spawn, current, batch) /\ UNCHANGED obsVars
    \/ \E i \in 1..MaxTicks, accepted \in BOOLEAN :
          AnswerRequest(i, accepted)
    \/ toggleAllianceDisplay
    \/ hideAllianceDisplay

AllianceSpec == AllianceInit /\ [][AllianceNext]_vars

\* AllianceDisplay observed with the batch of each tick()
AllianceUpdatesNext ==
    \/ \E spawn \in BOOLEAN, current \in AllySets, batch \in SingleUpdateBatches :
          /\ AllianceTick(1, spawn, current, batch)
          /\ lastBatch' = batch
          /\ UNCHANGED handled
    \/ \E i \in 1..MaxTicks, accepted \in BOOLEAN :
          AnswerRequest(i, accepted)

AllianceUpdatesSpec == AllianceInit /\ [][AllianceUpdatesNext]_vars

\* Either overlay, driven on its own
OverlaysInit == EventsInit \/ AllianceInit

OverlaysNext ==
    \/ overlay = "events" /\ EventsNext
    \/ overlay = "alliance" /\ AllianceNext

OverlaysSpec == OverlaysInit /\ [][OverlaysNext]_vars

----------------------------------------------------------------------------
\* Properties of EventsDisplay (checked under EventsSpec)

\* Age of an event at the current tick
Age(e) == ticks - e.createdAt

\* C1: after every completed tick() of EventsDisplay no notification is left
\* whose age has reached its effective duration (duration ?? 600), and every
\* notification the expiry filter evicted had reached it at that tick.
C1_ExpiredAreEvicted ==
    /\ last = "tick" =>
          \A i \in 1..Len(events) : Age(events[i]) < EffDuration(events[i])
    /\ \A x \in expired : x.at - x.ev.createdAt >= EffDuration(x.ev)

\* A completed tick() has just evicted a notification of default duration at
\* the very tick its age reached 600, and kept a younger one.
C1_Witness ==
    /\ last = "tick"
    /\ Len(events) > 0
    /\ \E x \in expired :
          /\ x.at = ticks
          /\ x.ev.duration = Undef
          /\ x.at - x.ev.createdAt = DefaultDuration

C5_OnDeleteOncePerExpiry ==
    /\ \A x \in expired :
          /\ \A i \in 1..Len(events) : events[i].id # x.ev.id
          /\ Count(x.ev.id, onDeleteLog) = IF x.ev.onDelete THEN 1 ELSE 0
    /\ \A k \in 1..Len(onDeleteLog) : \E x \in expired : x.ev.id = onDeleteLog[k]

\* The expiry filter has evicted a notification with onDelete and one
\* without it.
C5_Witness ==
    /\ \E x \in expired : x.ev.onDelete /\ Count(x.ev.id, onDeleteLog) = 1
    /\ \E x \in expired : ~x.ev.onDelete

\* C6: a press of a button without preventClose removes exactly the
\* notification of the pressed row, in that turn, keeps the others in their
\* order and runs no onDelete; the onDelete of a dismissed notification
\* never runs.
C6_DismissRemovesOnlyThatEntry ==
    /\ [][dismissed' # dismissed =>
            \E e \in dismissed' \ dismissed :
               /\ dismissed' = dismissed \cup {e}
               /\ e \in Range(events)
               /\ events' = SelectSeq(events, LAMBDA x : x.id # e.id)
               /\ Len(events') = Len(events) - 1
               /\ ticks' = ticks
               /\ onDeleteLog' = onDeleteLog]_vars
    /\ [](\A e \in dismissed : Count(e.id, onDeleteLog) = 0)

\* A notification with onDelete was dismissed, and a later tick() that left
\* other notifications in the list ran past the tick at which the dismissed
\* one would have expired.
C6_Witness ==
    /\ last = "tick"
    /\ Len(events) > 0
    /\ \E e \in dismissed : e.onDelete /\ Age(e) >= EffDuration(e)

\* C11: the rows of render() are in descending order of explicit priority,
\* and rows of equal priority are in ascending order of creation tick.
C11_RenderOrder ==
    \A i \in 1..Len(dom) : \A j \in (i + 1)..Len(dom) :
       /\ (dom[i].priority # Undef /\ dom[j].priority # Undef) =>
             dom[i].priority >= dom[j].priority
       /\ dom[i].priority = dom[j].priority =>
             dom[i].createdAt <= dom[j].createdAt

\* render() has moved a notification of higher explicit priority in front
\* of one of lower explicit priority that was added before it, in a list of
\* at least three rows.
C11_Witness ==
    /\ Len(dom) >= 3
    /\ \E i \in 1..Len(dom) : \E j \in (i + 1)..Len(dom) :
          /\ dom[i].priority # Undef /\ dom[j].priority # Undef
          /\ dom[i].priority > dom[j].priority
          /\ dom[i].id > dom[j].id

\* C12 as claimed: no row without an explicit priority comes before a row
\* with an explicit priority.
C12_NoPriorityRanksLowest ==
    \A i \in 1..Len(dom) : \A j \in (i + 1)..Len(dom) :
       dom[i].priority = Undef => dom[j].priority = Undef

\* C12 as amended: a row without an explicit priority ranks as priority
\* 100000: every explicit priority behind it is at most 100000 and every
\* explicit priority in front of it is at least 100000.
C12_NoPriorityRanksAsDefault ==
    \A i \in 1..Len(dom) : \A j \in (i + 1)..Len(dom) :
       /\ (dom[i].priority = Undef /\ dom[j].priority # Undef) =>
             dom[j].priority <= DefaultPriority
       /\ (dom[i].priority # Undef /\ dom[j].priority = Undef) =>
             dom[i].priority >= DefaultPriority

\* A row without an explicit priority stands behind a later-added row of
\* priority above 100000 and in front of an earlier-added row of priority
\* below 100000.
C12_Witness ==
    \E i \in 1..Len(dom) : \E j \in (i + 1)..Len(dom) : \E k \in (j + 1)..Len(dom) :
       /\ dom[i].priority # Undef /\ dom[i].priority > DefaultPriority
       /\ dom[j].priority = Undef
       /\ dom[k].priority # Undef /\ dom[k].priority < DefaultPriority
       /\ dom[k].id < dom[j].id

\* C13: no tick() is aborted by a fault of a handler.
C13_FailedLookupsAreSilent == last # "tickThrew"

----------------------------------------------------------------------------
\* Properties of the update handlers of EventsDisplay (checked under
\* EventsUpdatesSpec, which records the batch of each tick())

\* The notifications a tick() appended: the entries of the new list whose
\* object did not exist before the tick()
Appended == {e \in Range(events') : e.id >= nextId}

\* The emoji updates C15 expects a notification for
EmojiWanted(u) ==
    /\ localPlayer # NoPlayer
    /\ \/ u.recipientID = localPlayer
       \/ u.senderID = localPlayer /\ u.recipientID # AllPlayers

\* C15: a tick() appends one emoji notification for each emoji update of its
\* batch that is addressed to the local player or sent by the local player to
\* a specific player, and none for any other emoji update; the notification
\* of an update addressed to the local player is focused on the sender.
C15_EmojiNotifications ==
    [][ticks' # ticks =>
         LET emojis == lastBatch'.emoji
             added == {e \in Appended : e.focusID # Undef}
         IN /\ Cardinality(added) =
                  Cardinality({k \in 1..Len(emojis) : EmojiWanted(emojis[k])})
            /\ \A k \in 1..Len(emojis) :
                  (localPlayer # NoPlayer /\ emojis[k].recipientID = localPlayer) =>
                     \E e \in added : e.focusID = emojis[k].senderID]_vars

\* The display-message updates C16 expects a notification for
DisplayWanted(pid) == pid = Undef \/ (localPlayer # NoPlayer /\ pid = localPlayer)

\* C16: a tick() appends one display-message notification for each
\* display-message update of its batch that carries no playerID or the local
\* player's small ID, and none for any other display-message update.
C16_DisplayNotifications ==
    [][ticks' # ticks =>
         LET displays == lastBatch'.display
         IN Cardinality({e \in Appended : e.focusID = Undef}) =
               Cardinality({k \in 1..Len(displays) : DisplayWanted(displays[k])})]_vars

\* The last tick() was handed a display message targeted at the local player
\* and appended its notification, after a tick() that appended none.
C16_Witness ==
    /\ tickCalls = 2
    /\ localPlayer # NoPlayer
    /\ lastBatch.display = <<localPlayer>>
    /\ Len(events) = 1
    /\ events[1].createdAt = ticks /\ events[1].focusID = Undef

\* C25: newEvents is 0 right after the overlay is collapsed, is left alone
\* when the overlay is expanded, and in every other turn grows by the number
\* of notifications added if the overlay is collapsed and stays as it is if
\* the overlay is expanded.
C25_UnseenCounter ==
    [][IF evHidden' # evHidden
       THEN newEvents' = IF evHidden' THEN 0 ELSE newEvents
       ELSE newEvents' = newEvents + (IF evHidden THEN nextId' - nextId ELSE 0)]_vars

\* The overlay was collapsed, notifications were added, and it was expanded
\* again: the counter still shows them
C25_Witness == ~evHidden /\ newEvents > 0 /\ toggles = 2

\* C23: in every tick() the handler of a kind is invoked once for every update
\* of that kind in the batch, in the batch's order, and a batch with updates
\* of no registered kind adds no notification.
C23_OncePerUpdateInOrder ==
    [][ticks' # ticks =>
          /\ handled'.display = lastBatch'.display
          /\ handled'.emoji = lastBatch'.emoji
          /\ (lastBatch'.display = <<>> /\ lastBatch'.emoji = <<>>) => nextId' = nextId]_vars

\* C21: after every tick() with a local player the projections are what
\* the game view gave at that tick: the incoming attacks whose attacker is not
\* a bot, the outgoing attacks whose targetID is not 0, and the units that
\* are transport ships, each in the game view's order; without a local
\* player they are empty.
C21_ProjectionsAreCurrent ==
    (tickCalls > 0 /\ last \in {"tick", "tickThrew"}) =>
       IF localPlayer = NoPlayer
       THEN incomingAttacks = <<>> /\ outgoingAttacks = <<>> /\ outgoingBoats = <<>>
       ELSE /\ incomingAttacks =
                  SelectSeq(lastBatch.incoming, LAMBDA a : a.attackerID \notin Bots)
            /\ outgoingAttacks =
                  SelectSeq(lastBatch.outgoing, LAMBDA a : a.targetID # 0)
            /\ outgoingBoats =
                  SelectSeq(lastBatch.units, LAMBDA u : u = "TransportShip")

----------------------------------------------------------------------------
\* Properties of both overlays (checked under OverlaysSpec)

\* The identities of the entries of a list
Ids(list) == {list[i].id : i \in 1..Len(list)}

\* C24: a turn that adds an entry to, or removes one from, the notification
\* list of the Events overlay, the notification list of the Alliance overlay
\* or its pending-request list requests a re-render, whether or not the
\* overlay's clientID is set.
C24_ChangesRequestRender ==
    [][(\/ Ids(events') # Ids(events)
        \/ Ids(allianceEvents') # Ids(allianceEvents)
        \/ Ids(allianceRequests') # Ids(allianceRequests)) => requested']_vars

\* The second tick() of the Alliance overlay swept the only notification, which
\* the first had added, and requested a re-render
C24_Witness ==
    /\ overlay = "alliance" /\ last = "tick" /\ tickCalls = 2
    /\ nextAllianceId = 2 /\ allianceEvents = <<>> /\ allianceRequests = <<>>
    /\ requested

----------------------------------------------------------------------------
\* Properties of AllianceDisplay (checked under AllianceSpec)

\* C2: after a completed sweeping tick() of the visible overlay, no pending
\* request the user has not answered is left once the tick counter has reached
\* its creation tick plus 150.
C2_RequestAutoExpires ==
    (last = "tick" /\ ~allianceHidden /\ ticks % SweepPeriod = 0) =>
       \A i \in 1..Len(allianceRequests) :
          allianceRequests[i].id \notin answered =>
             ticks < allianceRequests[i].createdAt + RequestDuration

\* C7: a request whose onAccept or onReject ran is no longer in the
\* pending-request list.
C7_AnsweredRequestRemoved ==
    \A i \in 1..Len(allianceRequests) : allianceRequests[i].id \notin answered

\* C8: after every completed tick() whose tick counter is a multiple of 30,
\* no alliance notification is left with ticks >= createdAt + (duration ?? 150),
\* whether the overlay is shown or hidden.
C8_SweepEveryThirtyTicks ==
    (last = "tick" /\ ticks % SweepPeriod = 0) =>
       \A i \in 1..Len(allianceEvents) :
          ticks < allianceEvents[i].createdAt + Normalized(allianceEvents[i]).duration

\* C22: after every completed tick() whose tick counter is a multiple of 10,
\* the players of the ally roster are exactly the players the local player is
\* allied with at that tick, whether the overlay is shown or hidden.
C22_RosterIsSnapshot ==
    (last = "tick" /\ ticks % RosterPeriod = 0) => allies = gameAllies

\* C9: the overlay is hidden in every state reached while the game is in its
\* spawn phase.
C9_HiddenDuringSpawnPhase == inSpawnPhase => allianceHidden

\* C10: tick() reveals the overlay at most once: a tick() changes the hidden
\* flag only by revealing the overlay, outside the spawn phase, while setting
\* _shownOnInit, which stays set; once it is set no tick() changes the flag.
C10_AutoRevealOnce ==
    /\ [][ticks' # ticks =>
            /\ shownOnInit => allianceHidden' = allianceHidden
            /\ allianceHidden' # allianceHidden =>
                  ~shownOnInit /\ shownOnInit' /\ ~allianceHidden' /\ ~inSpawnPhase']_vars
    /\ [][shownOnInit => shownOnInit']_vars

\* The user hid the overlay after the automatic reveal and a later tick()
\* outside the spawn phase has left it hidden.
C10_Witness ==
    last = "tick" /\ shownOnInit /\ allianceHidden /\ ~inSpawnPhase

----------------------------------------------------------------------------
\* Properties of the update handlers of AllianceDisplay (checked under
\* AllianceUpdatesSpec, which records the batch of each tick())

\* The notifications and the requests a tick() appended
AppendedEvents == {e \in Range(allianceEvents') : e.id >= nextAllianceId}
AppendedRequests == {r \in Range(allianceRequests') : r.id >= nextAllianceId}

\* The number of updates of a batch's list us that satisfy Wanted
HowMany(us, Wanted(_)) == Cardinality({k \in 1..Len(us) : Wanted(us[k])})

\* C14: a tick() appends one pending request for each alliance-request update
\* of its batch whose recipient is the local player, naming the update's
\* requestor and recipient, and none for any other; a press of Accept or
\* Reject publishes the intent (requestor, recipient, accepted) of a pending
\* request.
C14_RequestsForRecipient ==
    /\ [][ticks' # ticks =>
            LET us == lastBatch'.request
                Wanted(u) == localPlayer # NoPlayer /\ u.recipientID = localPlayer
            IN /\ Cardinality(AppendedRequests) = HowMany(us, Wanted)
               /\ \A k \in 1..Len(us) : Wanted(us[k]) =>
                     \E r \in AppendedRequests :
                        /\ r.requestor = us[k].requestorID
                        /\ r.recipient = us[k].recipientID]_vars
    /\ [][bus' # bus =>
            \E i \in 1..Len(allianceRequests), accepted \in BOOLEAN :
               bus' = Append(bus, [requestor |-> allianceRequests[i].requestor,
                                   recipient |-> allianceRequests[i].recipient,
                                   accepted |-> accepted])]_vars

\* C17: for each broke-alliance update of its batch a tick() appends the
\* traitor notification when the local player is the breaker and is not
\* flagged as a traitor, the betrayed notification when the local player is
\* the betrayed party, and nothing otherwise.
C17_BrokeAllianceNotifications ==
    [][ticks' # ticks =>
         LET us == lastBatch'.broke
             Breaker(u) == /\ localPlayer # NoPlayer
                           /\ u.traitorID = localPlayer
                           /\ localPlayer \notin lastBatch'.traitors
             Betrayed(u) == /\ localPlayer # NoPlayer
                            /\ u.betrayedID = localPlayer
                            /\ ~Breaker(u)
         IN /\ Cardinality({e \in AppendedEvents : e.description = "traitor"})
                  = HowMany(us, Breaker)
            /\ Cardinality({e \in AppendedEvents : e.description = "betrayed"})
                  = HowMany(us, Betrayed)]_vars

\* C18: a tick() appends one notification for each alliance-request-reply
\* update of its batch whose requestor is the local player, of duration 50
\* for an acceptance and 150 for a rejection, and none for any other.
C18_ReplyNotifications ==
    [][ticks' # ticks =>
         LET us == lastBatch'.reply
             Accepted(u) == /\ localPlayer # NoPlayer
                            /\ u.requestorID = localPlayer /\ u.accepted
             Rejected(u) == /\ localPlayer # NoPlayer
                            /\ u.requestorID = localPlayer /\ ~u.accepted
         IN /\ Cardinality({e \in AppendedEvents : e.description = "accepted"
                                                    /\ e.duration = 50})
                  = HowMany(us, Accepted)
            /\ Cardinality({e \in AppendedEvents : e.description = "rejected"
                                                    /\ e.duration = 150})
                  = HowMany(us, Rejected)
            /\ Cardinality({e \in AppendedEvents :
                              e.description \in {"accepted", "rejected"}})
                  = HowMany(us, Accepted) + HowMany(us, Rejected)]_vars

\* The member of the pair of an alliance-expired update that is not the
\* local player
OtherOfPair(u) == CHOOSE x \in {u.player1ID, u.player2ID} : x # localPlayer

C20_TargetNotifications ==
    [][ticks' # ticks =>
         LET us == lastBatch'.target
             Wanted(u) == localPlayer # NoPlayer /\ u.playerID \in gameAllies'
             added == {e \in AppendedEvents : e.description = "target"}
         IN /\ Cardinality(added) = HowMany(us, Wanted)
            /\ \A e \in added : e.duration = 300
            /\ \A k \in 1..Len(us) : Wanted(us[k]) =>
                  \E e \in added : e.focusID = us[k].targetID]_vars

====
